---- MODULE Spec2Model ----
(***************************************************************************)
(* Model of gemini-flow: the graph sanitizer and layout engine             *)
(* (src/utils/layoutUtils.ts, computeLayout) and the App component that    *)
(* calls it (src/vite.config.ts, handleGenerate / handleLayoutChange).     *)
(*                                                                         *)
(* Strings are sequences of one-character strings, so that trim() and      *)
(* localeCompare() are computed, not assumed.  An optional property of a   *)
(* TypeScript object (label?, level?, x?, y?) is a record field that is    *)
(* present or absent.                                                      *)
(***************************************************************************)
EXTENDS Integers, Sequences, FiniteSets, TLC

\* ------------------------------------------------------------------------
\* layoutUtils.ts : geometry constants
\* ------------------------------------------------------------------------
NODE_WIDTH == 220
NODE_HEIGHT == 140
X_GAP == 60
Y_GAP == 100
CANVAS_PADDING == 50
SNAKE_COLUMNS == 4

\* ------------------------------------------------------------------------
\* types : enums
\* ------------------------------------------------------------------------
TOP_BOTTOM == "top-bottom"
ZIG_ZAG == "zig-zag"
LayoutDirection == {TOP_BOTTOM, ZIG_ZAG}

RECTANGLE == "rectangle"
DIAMOND == "diamond"
PILL == "pill"
PARALLELOGRAM == "parallelogram"
NodeShape == {RECTANGLE, DIAMOND, PILL, PARALLELOGRAM}

\* ------------------------------------------------------------------------
\* Strings
\* ------------------------------------------------------------------------
Max(a, b) == IF a >= b THEN a ELSE b

\* White space as String.prototype.trim() sees it (the characters used here).
IsWhiteSpace(c) == c \in {" ", "\t", "\n"}

RECURSIVE TrimStart(_)
TrimStart(s) ==
  IF s # <<>> /\ IsWhiteSpace(Head(s)) THEN TrimStart(Tail(s)) ELSE s

RECURSIVE TrimEnd(_)
TrimEnd(s) ==
  IF s # <<>> /\ IsWhiteSpace(s[Len(s)])
    THEN TrimEnd(SubSeq(s, 1, Len(s) - 1))
    ELSE s

\* String.prototype.trim()
Trim(s) == TrimEnd(TrimStart(s))

\* Collation rank of a character of a node id: digits before letters,
\* letters in alphabetical order, "n" before "S" (the default collation of
\* String.prototype.localeCompare, which is not the order of the code units).
CharRank(c) ==
  CASE c = "0" -> 0 [] c = "1" -> 1 [] c = "2" -> 2 [] c = "3" -> 3
    [] c = "4" -> 4 [] c = "5" -> 5 [] c = "6" -> 6 [] c = "7" -> 7
    [] c = "8" -> 8 [] c = "9" -> 9
    [] c = "A" -> 10 [] c = "B" -> 11 [] c = "C" -> 12 [] c = "D" -> 13
    [] c = "E" -> 14 [] c = "n" -> 15 [] c = "S" -> 16

\* a.localeCompare(b): negative, zero or positive.
RECURSIVE LocaleCompare(_, _)
LocaleCompare(a, b) ==
  IF a = <<>> /\ b = <<>> THEN 0
  ELSE IF a = <<>> THEN -1
  ELSE IF b = <<>> THEN 1
  ELSE IF CharRank(Head(a)) # CharRank(Head(b))
    THEN CharRank(Head(a)) - CharRank(Head(b))
    ELSE LocaleCompare(Tail(a), Tail(b))

\* ------------------------------------------------------------------------
\* Objects and arrays
\* ------------------------------------------------------------------------
Range(s) == {s[i] : i \in DOMAIN s}

\* obj.k = v on an object whose property k may be absent.
SetField(obj, k, v) == (k :> v) @@ obj

\* node.level || 0
LevelOf(node) == IF "level" \in DOMAIN node THEN node.level ELSE 0

\* ------------------------------------------------------------------------
\* computeLayout : sanitization step (layoutUtils.ts 15-37)
\* ------------------------------------------------------------------------
\* new Set(nodes.map(n => n.id))
NodeIdSet(nodes) == {nodes[i].id : i \in DOMAIN nodes}

\* Variant of RemoveDangling: only the source of an edge is looked up.
RemoveDanglingSourceOnly(nodes, edges) ==
  LET nodeIds == NodeIdSet(nodes)
      Keep(e) == e.source \in nodeIds
  IN  SelectSeq(edges, Keep)

\* 1. Remove edges that point to non-existent nodes
RemoveDangling(nodes, edges) ==
  LET nodeIds == NodeIdSet(nodes)
      Keep(e) == e.source \in nodeIds /\ e.target \in nodeIds
  IN  SelectSeq(edges, Keep)

\* Variant of RemoveSelfLoops: labelled self-loops are kept.
RemoveSelfLoopsUnlabelled(edges) ==
  LET Keep(e) == e.source # e.target \/ "label" \in DOMAIN e
  IN  SelectSeq(edges, Keep)

\* 2. Remove self-loops
RemoveSelfLoops(edges) ==
  LET Keep(e) == e.source # e.target
  IN  SelectSeq(edges, Keep)

\* Variant of HasLabel: the label is not trimmed before its length is taken.
HasLabelUntrimmed(e) ==
  /\ "label" \in DOMAIN e
  /\ Len(e.label) > 0

\* e.label && e.label.trim().length > 0
HasLabel(e) ==
  /\ "label" \in DOMAIN e
  /\ e.label # <<>>
  /\ Len(Trim(e.label)) > 0

\* new Set(nodes.filter(n => n.shape === NodeShape.DIAMOND).map(n => n.id))
DiamondNodeIds(nodes) == {nodes[i].id : i \in {j \in DOMAIN nodes : nodes[j].shape = DIAMOND}}

\* Variant of RemoveGhostEdges: the redundant edge of a decision is taken to
\* be the first edge leaving a diamond, whatever its label.
RemoveGhostEdgesFirst(nodes, edges) ==
  LET diamondNodeIds == DiamondNodeIds(nodes)
      fromDiamond == {i \in DOMAIN edges : edges[i].source \in diamondNodeIds}
      Keep(i) == \E j \in fromDiamond : j < i
      Kept(i) == i \notin fromDiamond \/ Keep(i)
      keptIdx == {i \in DOMAIN edges : Kept(i)}
  IN  [k \in 1..Cardinality(keptIdx) |->
         edges[CHOOSE i \in keptIdx : Cardinality({j \in keptIdx : j < i}) = k - 1]]

\* 3. Unlabeled edges are dropped only if the source is a diamond node
RemoveGhostEdges(nodes, edges) ==
  LET diamondNodeIds == DiamondNodeIds(nodes)
      Keep(e) == IF e.source \in diamondNodeIds THEN HasLabel(e) ELSE TRUE
  IN  SelectSeq(edges, Keep)

\* Variant of Sanitize: an edge equal to an earlier one is dropped too.
SanitizeDistinct(nodes, edges) ==
  LET kept == RemoveGhostEdges(nodes, RemoveSelfLoops(RemoveDangling(nodes, edges)))
      firsts == {i \in DOMAIN kept : \A j \in DOMAIN kept : j < i => kept[j] # kept[i]}
  IN  [k \in 1..Cardinality(firsts) |->
         kept[CHOOSE i \in firsts : Cardinality({j \in firsts : j < i}) = k - 1]]

\* The three filters in the order of the code.
Sanitize(nodes, edges) ==
  RemoveGhostEdges(nodes, RemoveSelfLoops(RemoveDangling(nodes, edges)))

\* ------------------------------------------------------------------------
\* computeLayout : level assignment (layoutUtils.ts 40-82)
\* ------------------------------------------------------------------------
\* nodeMap: id -> the node object, here its index in the nodes array
\* (Map.set overwrites, so the last node of an id wins).
NodeMap(nodes) ==
  [id \in NodeIdSet(nodes) |->
     CHOOSE i \in DOMAIN nodes :
       nodes[i].id = id /\ \A j \in DOMAIN nodes : j > i => nodes[j].id # id]

\* Variant of ResetLevels: every node starts at level 1.
ResetLevelsToOne(nodes) == [i \in DOMAIN nodes |-> SetField(nodes[i], "level", 1)]

\* Variant of ResetLevels: each node is rebuilt from its id and shape.
ResetLevelsRebuilding(nodes) ==
  [i \in DOMAIN nodes |-> [id |-> nodes[i].id, shape |-> nodes[i].shape, level |-> 0]]

\* nodes.forEach(node => { node.level = 0; ... })
ResetLevels(nodes) == [i \in DOMAIN nodes |-> SetField(nodes[i], "level", 0)]

\* nodes.find(n => !targets.has(n.id))?.id || nodes[0].id
StartNodeId(nodes, edges) ==
  LET targets == {edges[i].target : i \in DOMAIN edges}
      free == {i \in DOMAIN nodes : nodes[i].id \notin targets}
      first == CHOOSE i \in free : \A j \in free : i <= j
  IN  IF free # {} /\ nodes[first].id # <<>> THEN nodes[first].id ELSE nodes[1].id

\* Variant of BfsStart: the start node is queued without being marked
\* visited.
BfsStartUnvisited(nodes, startNodeId) ==
  [queue |-> <<[id |-> startNodeId, level |-> 0]>>,
   visited |-> {},
   nodes |-> nodes,
   start |-> startNodeId,
   discovered |-> <<>>,
   dequeues |-> 0]

\* Variant of BfsStart: levels are counted from 1.
BfsStartAtOne(nodes, startNodeId) ==
  [queue |-> <<[id |-> startNodeId, level |-> 1]>>,
   visited |-> {startNodeId},
   nodes |-> nodes,
   start |-> startNodeId,
   discovered |-> <<>>,
   dequeues |-> 0]

\* The state of the loop: the queue, the visited set and the node objects,
\* with a record of what the loop did (the edges through which a node was
\* enqueued, in order, and the number of dequeues).
BfsStart(nodes, startNodeId) ==
  [queue |-> <<[id |-> startNodeId, level |-> 0]>>,
   visited |-> {startNodeId},
   nodes |-> nodes,
   start |-> startNodeId,
   discovered |-> <<>>,
   dequeues |-> 0]

\* Variant of Enqueue: the target is queued at the level of the source.
EnqueueSameLevel(queue, id, level) == Append(queue, [id |-> id, level |-> level])

\* queue.push({ id: edge.target, level: level + 1 })
Enqueue(queue, id, level) == Append(queue, [id |-> id, level |-> level + 1])

\* outgoingEdges.forEach(edge => { if (!visited.has(edge.target)) {...} })
RECURSIVE ForEachOutgoing(_, _, _)
ForEachOutgoing(outgoing, level, st) ==
  IF outgoing = <<>> THEN st
  ELSE LET edge == Head(outgoing)
           next == IF edge.target \notin st.visited
                     THEN [st EXCEPT !.visited = @ \cup {edge.target},
                                     !.queue = Enqueue(@, edge.target, level),
                                     !.discovered = Append(@, edge)]
                     ELSE st
       IN  ForEachOutgoing(Tail(outgoing), level, next)

\* node.level = Math.max(node.level || 0, level)
VisitLevel(node, level) == Max(LevelOf(node), level)

\* while (queue.length > 0) { ... }
RECURSIVE BfsLoop(_, _, _)
BfsLoop(st, edges, nodeMap) ==
  IF st.queue = <<>> THEN st
  ELSE LET item == Head(st.queue)
           id == item.id
           level == item.level
           Outgoing(e) == e.source = id
           shifted ==
             [st EXCEPT !.queue = Tail(@),
                        !.dequeues = @ + 1,
                        !.nodes = IF id \in DOMAIN nodeMap
                                    THEN [@ EXCEPT ![nodeMap[id]] =
                                            SetField(@, "level", VisitLevel(@, level))]
                                    ELSE @]
       IN  BfsLoop(ForEachOutgoing(SelectSeq(edges, Outgoing), level, shifted),
                   edges, nodeMap)

\* Lines 40-82 on a non-empty node array and the sanitized edges.
AssignLevels(nodes, edges) ==
  BfsLoop(BfsStart(ResetLevels(nodes), StartNodeId(nodes, edges)), edges, NodeMap(nodes))

\* ------------------------------------------------------------------------
\* computeLayout : sorting (layoutUtils.ts 84-90)
\* ------------------------------------------------------------------------
\* Variant of CompareNodes: the comparator looks at the level alone.
CompareNodesLevelOnly(a, b) == LevelOf(a) - LevelOf(b)

\* The comparator of the sort: level first, then id.localeCompare.
CompareNodes(a, b) ==
  LET levA == LevelOf(a)
      levB == LevelOf(b)
  IN  IF levA # levB THEN levA - levB ELSE LocaleCompare(a.id, b.id)

\* One insertion of a stable sort: index i goes after every index already
\* placed that does not compare greater than it.
RECURSIVE InsertSorted(_, _, _)
InsertSorted(sorted, i, nodes) ==
  IF sorted = <<>> THEN <<i>>
  ELSE IF CompareNodes(nodes[Head(sorted)], nodes[i]) > 0
    THEN <<i>> \o sorted
    ELSE <<Head(sorted)>> \o InsertSorted(Tail(sorted), i, nodes)

RECURSIVE SortFrom(_, _, _)
SortFrom(sorted, i, nodes) ==
  IF i > Len(nodes) THEN sorted
  ELSE SortFrom(InsertSorted(sorted, i, nodes), i + 1, nodes)

\* [...nodes].sort(...): the node objects in sorted order, each named by its
\* index in the nodes array, which the sort leaves as it is.
SortedNodes(nodes) == SortFrom(<<>>, 1, nodes)

\* The 0-based position of element v in the sequence s.
IndexOf(s, v) == (CHOOSE k \in DOMAIN s : s[k] = v) - 1

\* ------------------------------------------------------------------------
\* computeLayout : zig-zag grid (layoutUtils.ts 93-109)
\* ------------------------------------------------------------------------
SnakeRow(index) == index \div SNAKE_COLUMNS

\* Variant of SnakeCol: an odd row is reversed from SNAKE_COLUMNS instead of
\* SNAKE_COLUMNS - 1.
SnakeColOffByOne(index) ==
  LET col == index % SNAKE_COLUMNS
  IN  IF SnakeRow(index) % 2 # 0 THEN SNAKE_COLUMNS - col ELSE col

\* Variant of SnakeCol: odd rows are not reversed.
SnakeColUnreversed(index) == index % SNAKE_COLUMNS

SnakeCol(index) ==
  LET col == index % SNAKE_COLUMNS
  IN  IF SnakeRow(index) % 2 # 0 THEN SNAKE_COLUMNS - 1 - col ELSE col

SnakeX(index) == SnakeCol(index) * (NODE_WIDTH + X_GAP) + CANVAS_PADDING + (NODE_WIDTH \div 2)

SnakeY(index) == SnakeRow(index) * (NODE_HEIGHT + Y_GAP) + CANVAS_PADDING + (NODE_HEIGHT \div 2)

ZigZagLayout(nodes, sortedNodes) ==
  [i \in DOMAIN nodes |->
     LET index == IndexOf(sortedNodes, i)
     IN  SetField(SetField(nodes[i], "x", SnakeX(index)), "y", SnakeY(index))]

\* ------------------------------------------------------------------------
\* computeLayout : top-bottom rows (layoutUtils.ts 110-138)
\* ------------------------------------------------------------------------
\* levels.get(lvl): the nodes pushed under the key lvl, in the sorted order.
NodesInLevel(nodes, sortedNodes, lvl) ==
  LET InLevel(i) == LevelOf(nodes[i]) = lvl
  IN  SelectSeq(sortedNodes, InLevel)

LevelKeys(nodes) == {LevelOf(nodes[i]) : i \in DOMAIN nodes}

RECURSIVE SetMax(_)
SetMax(S) ==
  IF S = {} THEN 0
  ELSE LET v == CHOOSE u \in S : TRUE IN Max(v, SetMax(S \ {v}))

\* maxRowWidth = max over the levels of length * (NODE_WIDTH + X_GAP)
MaxRowWidth(nodes, sortedNodes) ==
  SetMax({Len(NodesInLevel(nodes, sortedNodes, lvl)) * (NODE_WIDTH + X_GAP) :
            lvl \in LevelKeys(nodes)})

\* Variant of RowWidth: the trailing gap is not subtracted.
RowWidthWithGap(count) == count * (NODE_WIDTH + X_GAP)

RowWidth(count) == count * (NODE_WIDTH + X_GAP) - X_GAP

StartX(maxRowWidth, rowWidth) == (maxRowWidth - rowWidth) \div 2 + CANVAS_PADDING

\* Variant of RowX: the nodes of a row are spaced by the node width alone.
RowXNoGap(startX, index) == startX + index * NODE_WIDTH + (NODE_WIDTH \div 2)

RowX(startX, index) == startX + index * (NODE_WIDTH + X_GAP) + (NODE_WIDTH \div 2)

\* Variant of RowY: the row is taken from the level's parity.
RowYByParity(level) == (level % 2) * (NODE_HEIGHT + Y_GAP) + CANVAS_PADDING + (NODE_HEIGHT \div 2)

RowY(level) == level * (NODE_HEIGHT + Y_GAP) + CANVAS_PADDING + (NODE_HEIGHT \div 2)

TopBottomLayout(nodes, sortedNodes) ==
  LET maxRowWidth == MaxRowWidth(nodes, sortedNodes)
  IN  [i \in DOMAIN nodes |->
         LET level == LevelOf(nodes[i])
             nodesInLevel == NodesInLevel(nodes, sortedNodes, level)
             startX == StartX(maxRowWidth, RowWidth(Len(nodesInLevel)))
             index == IndexOf(nodesInLevel, i)
         IN  SetField(SetField(nodes[i], "x", RowX(startX, index)), "y", RowY(level))]

\* ------------------------------------------------------------------------
\* computeLayout (layoutUtils.ts 10-141)
\* ------------------------------------------------------------------------
\* Variant of ApplyLayout: the nodes array itself is sorted (nodes.sort(...))
\* instead of a copy of it.
ApplyLayoutSortingInPlace(nodes, direction) ==
  LET sortedNodes == SortedNodes(nodes)
      moved == [k \in DOMAIN nodes |-> nodes[sortedNodes[k]]]
      inOrder == [k \in DOMAIN nodes |-> k]
  IN  IF direction = ZIG_ZAG
        THEN ZigZagLayout(moved, inOrder)
        ELSE TopBottomLayout(moved, inOrder)

\* 3. Apply Layout based on direction
ApplyLayout(nodes, direction) ==
  IF direction = ZIG_ZAG
    THEN ZigZagLayout(nodes, SortedNodes(nodes))
    ELSE TopBottomLayout(nodes, SortedNodes(nodes))

\* No call has gone past the guard of line 13.
NoRun ==
  [nodes |-> <<>>, edges |-> <<>>, start |-> <<>>, discovered |-> <<>>,
   dequeues |-> 0, visited |-> {}]

\* Lines 15-138 on a non-empty graph: what the call leaves in the node and
\* edge arrays, with the record of its level loop.
LayoutRun(data, direction) ==
  LET edges == Sanitize(data.nodes, data.edges)
      bfs == AssignLevels(data.nodes, edges)
  IN  [nodes |-> ApplyLayout(bfs.nodes, direction),
       edges |-> edges,
       start |-> bfs.start,
       discovered |-> bfs.discovered,
       dequeues |-> bfs.dequeues,
       visited |-> bfs.visited]

\* if (nodes.length === 0) return data; otherwise the run of the call
RunOf(data, direction) ==
  IF Len(data.nodes) = 0 THEN NoRun ELSE LayoutRun(data, direction)

\* Variant of Returned: the guard on the node array comes after the
\* sanitization step.
ReturnedAfterSanitize(data, r) ==
  IF Len(data.nodes) = 0
    THEN [nodes |-> data.nodes, edges |-> Sanitize(data.nodes, data.edges)]
    ELSE [nodes |-> r.nodes, edges |-> r.edges]

\* The value a call returns, given its run: data itself at line 13,
\* { nodes, edges } at line 140.
Returned(data, r) ==
  IF Len(data.nodes) = 0 THEN data ELSE [nodes |-> r.nodes, edges |-> r.edges]

ComputeLayout(data, direction) == Returned(data, RunOf(data, direction))

\* ------------------------------------------------------------------------
\* Graphs the content-generation service can return (geminiService.ts 87-90:
\* whatever JSON.parse yields for {nodes, edges})
\* ------------------------------------------------------------------------
MaxEdges == 1
MaxPoolNodes == 4
MaxPoolEdges == 4
MaxChain == 9
MaxAppNodes == 3
MaxAppEdges == 2
MaxAppPool == 6
MaxCalls == 3

\* A node as generated: the label is "L" followed by the id.
Node(id, shape) == [id |-> id, label |-> <<"L">> \o id, shape |-> shape]
Edge(source, target) == [source |-> source, target |-> target]
LEdge(source, target, label) == [source |-> source, target |-> target, label |-> label]

N(digits) == <<"n">> \o digits
NODE99 == <<"n", "o", "d", "e", "9", "9">>
Digit == <<"1", "2", "3", "4", "5", "6", "7", "8", "9">>

\* "n1", ..., "n9", "n10", "n11", ...
ChainId(k) ==
  IF k <= 9 THEN N(<<Digit[k]>>)
  ELSE N(<<"1", IF k = 10 THEN "0" ELSE Digit[k - 10]>>)

\* All the order-preserving selections of at most maxLen elements of pool.
SubSeqs(pool, maxLen) ==
  {[k \in 1..Cardinality(S) |->
      pool[CHOOSE i \in S : Cardinality({j \in S : j < i}) = k - 1]] :
     S \in {T \in SUBSET DOMAIN pool : Cardinality(T) <= maxLen}}

\* Every sequence of at most maxLen elements of the set S.
SeqsUpTo(S, maxLen) == UNION {[1..k -> S] : k \in 0..maxLen}

DistinctIds(nodes) == \A i, j \in DOMAIN nodes : i # j => nodes[i].id # nodes[j].id

\* (a) Every small graph: node arrays of distinct ids in every order, edge
\*     arrays over the declared ids and an undeclared one, with every kind of
\*     label.
SmallIds == {N(<<"2">>), N(<<"1", "0">>)}
SmallLabels == {<<" ">>, <<"Y">>}
SmallEnds == SmallIds \cup {NODE99}
SmallNodeArrays ==
  {nodes \in SeqsUpTo({Node(id, sh) : id \in SmallIds, sh \in {RECTANGLE, DIAMOND}},
                      Cardinality(SmallIds)) :
     DistinctIds(nodes)}
SmallEdges ==
  {Edge(s, t) : s \in SmallEnds, t \in SmallEnds}
    \cup {LEdge(s, t, l) : s \in SmallEnds, t \in SmallEnds, l \in SmallLabels}
SmallGraphs ==
  {[nodes |-> nodes, edges |-> edges] :
     nodes \in SmallNodeArrays, edges \in SeqsUpTo(SmallEdges, MaxEdges)}

\* (b) Larger graphs: a prefix of a node array listed out of id order, and a
\*     selection of a pool of edges with paths, merges, cycles, duplicates,
\*     self-loops, undeclared endpoints and labelled and unlabelled branches
\*     of the decision node.
PoolNodes ==
  <<Node(N(<<"2">>), PILL), Node(N(<<"1", "0">>), RECTANGLE), Node(N(<<"1">>), DIAMOND),
    Node(N(<<"3">>), RECTANGLE), Node(N(<<"2", "0">>), PARALLELOGRAM)>>
PoolEdges ==
  <<Edge(N(<<"1", "0">>), N(<<"1">>)),
    Edge(N(<<"2">>), N(<<"1", "0">>)),
    LEdge(N(<<"1">>), N(<<"3">>), <<"Y", "e", "s">>),
    Edge(N(<<"1">>), N(<<"1", "0">>)),
    LEdge(N(<<"1">>), N(<<"2">>), <<" ">>),
    Edge(N(<<"3">>), N(<<"2">>)),
    LEdge(N(<<"1">>), N(<<"3">>), <<>>),
    LEdge(N(<<"3">>), N(<<"3">>), <<"Y">>),
    LEdge(N(<<"1">>), NODE99, <<"Y">>),
    Edge(N(<<"3">>), N(<<"2", "0">>)),
    LEdge(N(<<"1">>), N(<<"2", "0">>), <<" ", "N", "o", " ">>),
    Edge(N(<<"2">>), N(<<"1", "0">>)),
    Edge(N(<<"2">>), N(<<"1">>))>>
Prefix(s, k) == SubSeq(s, 1, IF k <= Len(s) THEN k ELSE Len(s))
PoolGraphs ==
  {[nodes |-> Prefix(PoolNodes, k), edges |-> edges] :
     k \in 1..MaxPoolNodes, edges \in SubSeqs(PoolEdges, MaxPoolEdges)}

\* (c) Linear chains n1 -> n2 -> ... -> nk.
Chain(k) ==
  [nodes |-> [i \in 1..k |-> Node(ChainId(i), IF i \in {1, k} THEN PILL ELSE RECTANGLE)],
   edges |-> [i \in 1..(k - 1) |-> Edge(ChainId(i), ChainId(i + 1))]]
ChainGraphs == {Chain(k) : k \in 1..MaxChain}

\* (d) The scenarios of the specification's section 8.
ScenarioA ==
  [nodes |-> <<Node(<<"S">>, PILL), Node(<<"A">>, RECTANGLE), Node(<<"B">>, DIAMOND),
               Node(<<"C">>, RECTANGLE), Node(<<"D">>, RECTANGLE), Node(<<"E">>, PILL)>>,
   edges |-> <<Edge(<<"S">>, <<"A">>), Edge(<<"A">>, <<"B">>),
               LEdge(<<"B">>, <<"C">>, <<"Y", "e", "s">>),
               LEdge(<<"B">>, <<"D">>, <<"N", "o">>),
               Edge(<<"B">>, <<"E">>)>>]
ScenarioC ==
  [nodes |-> <<Node(<<"S">>, PILL), Node(<<"A">>, RECTANGLE)>>,
   edges |-> <<Edge(<<"S">>, <<"A">>), Edge(<<"A">>, NODE99)>>]

\* (e) A node whose id is the empty string, the source of the only edge.
EmptyIdGraph ==
  [nodes |-> <<Node(N(<<"2">>), RECTANGLE), Node(<<>>, PILL)>>,
   edges |-> <<Edge(<<>>, N(<<"2">>))>>]

\* The graphs of the application model: prefixes of the pool's node array,
\* the empty one included, with selections of the first edges of the pool.
AppGraphs ==
  {[nodes |-> Prefix(PoolNodes, k), edges |-> edges] :
     k \in 0..MaxAppNodes, edges \in SubSeqs(Prefix(PoolEdges, MaxAppPool), MaxAppEdges)}
    \cup {ScenarioA}

\* ------------------------------------------------------------------------
\* State
\* ------------------------------------------------------------------------
VARIABLES
  prompt,           \* App: useState('')
  isLoading,        \* App: useState(false)
  error,            \* App: useState<string | null>(null)
  data,             \* App: useState<FlowchartData | null>(null); the graph object
  layoutDirection,  \* App: useState(LayoutDirection.TOP_BOTTOM)
  pending,          \* handleGenerate calls awaiting generateFlowchart, each with
                    \* the layoutDirection its closure captured
  raw,              \* the graph as the generator returned it (history)
  calls,            \* the directions of the computeLayout calls made on the object
                    \* held in data, oldest first (history)
  run,              \* the run of the last computeLayout call (history)
  editingNodeId,    \* DiagramCanvas: useState<string | null>(null); null, or
                    \* [id |-> the id held]
  editValue         \* DiagramCanvas: useState("")

vars ==
  <<prompt, isLoading, error, data, layoutDirection, pending, raw, calls, run,
    editingNodeId, editValue>>

Null == [null |-> TRUE]

GENERATE_FAILED == "Failed to generate flowchart. Please check your API key and try again."

PromptTexts == {<<>>, <<" ">>, <<"p">>}

\* ------------------------------------------------------------------------
\* computeLayout applied to a graph (SpecLayout)
\* ------------------------------------------------------------------------
InitLayout ==
  /\ \/ data \in SmallGraphs
     \/ data \in PoolGraphs
     \/ data \in ChainGraphs
     \/ data \in {ScenarioA, ScenarioC, EmptyIdGraph}
  /\ raw = data
  /\ calls = <<>>
  /\ run = NoRun
  /\ layoutDirection = TOP_BOTTOM
  /\ prompt = <<>>
  /\ isLoading = FALSE
  /\ error = Null
  /\ pending = <<>>
  /\ editingNodeId = Null
  /\ editValue = <<>>

\* computeLayout(data, direction) on a graph not laid out before
CallComputeLayout(direction) ==
  /\ calls = <<>>
  /\ run' = RunOf(data, direction)
  /\ data' = Returned(data, run')
  /\ calls' = <<direction>>
  /\ UNCHANGED <<prompt, isLoading, error, layoutDirection, pending, raw, editingNodeId, editValue>>

NextLayout == \E direction \in LayoutDirection : CallComputeLayout(direction)

SpecLayout == InitLayout /\ [][NextLayout]_vars

\* ------------------------------------------------------------------------
\* App (vite.config.ts 131-172)
\* ------------------------------------------------------------------------
Init ==
  /\ prompt = <<>>
  /\ isLoading = FALSE
  /\ error = Null
  /\ data = Null
  /\ layoutDirection = TOP_BOTTOM
  /\ pending = <<>>
  /\ editingNodeId = Null
  /\ editValue = <<>>
  /\ raw = Null
  /\ calls = <<>>
  /\ run = NoRun

\* onChange={(e) => setPrompt(e.target.value)}
SetPrompt(text) ==
  /\ prompt' = text
  /\ UNCHANGED <<isLoading, error, data, layoutDirection, pending, raw, calls, run,
                 editingNodeId, editValue>>

\* Variant of HandleGenerate: the submit button is not disabled while
\* isLoading.
HandleGenerateWhileLoading ==
  /\ Trim(prompt) # <<>>
  /\ isLoading' = TRUE
  /\ error' = Null
  /\ data' = Null
  /\ pending' = Append(pending, [direction |-> layoutDirection])
  /\ raw' = Null
  /\ calls' = <<>>
  /\ run' = NoRun
  /\ UNCHANGED <<prompt, layoutDirection, editingNodeId, editValue>>

\* handleGenerate up to its await; the submit button is disabled while
\* isLoading or the prompt is blank.
HandleGenerate ==
  /\ ~isLoading
  /\ Trim(prompt) # <<>>
  /\ isLoading' = TRUE
  /\ error' = Null
  /\ data' = Null
  /\ pending' = Append(pending, [direction |-> layoutDirection])
  /\ raw' = Null
  /\ calls' = <<>>
  /\ run' = NoRun
  /\ UNCHANGED <<prompt, layoutDirection, editingNodeId, editValue>>

\* generateFlowchart resolves with rawData: the rest of the try block and
\* the finally block.
GenerateResolve(rawData) ==
  /\ pending # <<>>
  /\ LET request == Head(pending)
     IN  /\ run' = RunOf(rawData, request.direction)
         /\ data' = Returned(rawData, run')
         /\ calls' = <<request.direction>>
  /\ raw' = rawData
  /\ isLoading' = FALSE
  /\ pending' = Tail(pending)
  /\ UNCHANGED <<prompt, error, layoutDirection, editingNodeId, editValue>>

\* Variant of GenerateReject: the catch block without the finally block.
GenerateRejectNoFinally ==
  /\ pending # <<>>
  /\ error' = [message |-> GENERATE_FAILED]
  /\ pending' = Tail(pending)
  /\ UNCHANGED <<prompt, isLoading, data, layoutDirection, raw, calls, run, editingNodeId, editValue>>

\* generateFlowchart rejects: the catch block and the finally block.
GenerateReject ==
  /\ pending # <<>>
  /\ error' = [message |-> GENERATE_FAILED]
  /\ isLoading' = FALSE
  /\ pending' = Tail(pending)
  /\ UNCHANGED <<prompt, data, layoutDirection, raw, calls, run, editingNodeId, editValue>>

\* handleLayoutChange(newDirection)
HandleLayoutChange(newDirection) ==
  /\ layoutDirection' = newDirection
  /\ IF data # Null
       THEN /\ Len(calls) < MaxCalls
            /\ run' = RunOf(data, newDirection)
            /\ data' = Returned(data, run')
            /\ calls' = Append(calls, newDirection)
       ELSE UNCHANGED <<data, run, calls>>
  /\ UNCHANGED <<prompt, isLoading, error, pending, raw, editingNodeId, editValue>>

Next ==
  \/ \E text \in PromptTexts : SetPrompt(text)
  \/ HandleGenerate
  \/ \E rawData \in AppGraphs : GenerateResolve(rawData)
  \/ GenerateReject
  \/ \E newDirection \in LayoutDirection : HandleLayoutChange(newDirection)

Spec == Init /\ [][Next]_vars

\* ------------------------------------------------------------------------
\* DiagramCanvas: inline label editing (SpecCanvas)
\* ------------------------------------------------------------------------
\* The texts typed into the textarea of the node being edited.
EditTexts == {<<>>, <<"X">>}

\* The onNodeUpdate prop: <DiagramCanvas data={data} /> passes none.
OnNodeUpdate == Null

\* The textarea is rendered: a graph with nodes is shown and one of its nodes
\* has the id held in editingNodeId.
InputRendered ==
  /\ data # Null
  /\ Len(data.nodes) # 0
  /\ editingNodeId # Null
  /\ editingNodeId.id \in NodeIdSet(data.nodes)

\* The canvas as mounted, showing a graph App has generated and laid out.
InitCanvas ==
  \E rawData \in AppGraphs, direction \in LayoutDirection :
    /\ raw = rawData
    /\ run = RunOf(rawData, direction)
    /\ data = Returned(rawData, run)
    /\ calls = <<direction>>
    /\ layoutDirection = direction
    /\ prompt = <<"p">>
    /\ isLoading = FALSE
    /\ error = Null
    /\ pending = <<>>
    /\ editingNodeId = Null
    /\ editValue = <<>>

\* handleNodeDoubleClick(e, node) on the i-th node drawn
HandleNodeDoubleClick(i) ==
  /\ data # Null
  /\ Len(data.nodes) # 0
  /\ i \in DOMAIN data.nodes
  /\ editingNodeId' = [id |-> data.nodes[i].id]
  /\ editValue' = data.nodes[i].label
  /\ UNCHANGED <<prompt, isLoading, error, data, layoutDirection, pending, raw, calls, run>>

\* onChange={(e) => setEditValue(e.target.value)}
SetEditValue(text) ==
  /\ InputRendered
  /\ editValue' = text
  /\ UNCHANGED <<prompt, isLoading, error, data, layoutDirection, pending, raw, calls, run,
                 editingNodeId>>

\* handleInputBlur(): onNodeUpdate is called only if it was passed.
HandleInputBlur ==
  /\ IF editingNodeId # Null /\ OnNodeUpdate # Null
       THEN data' = OnNodeUpdate[editingNodeId.id, editValue]
       ELSE UNCHANGED data
  /\ editingNodeId' = Null
  /\ UNCHANGED <<prompt, isLoading, error, layoutDirection, pending, raw, calls, run, editValue>>

\* onBlur={handleInputBlur}
InputBlur == InputRendered /\ HandleInputBlur

\* handleKeyDown(e): Enter without Shift commits, any other key does nothing
\* here.
HandleKeyDown(key, shiftKey) ==
  /\ InputRendered
  /\ IF key = "Enter" /\ ~shiftKey THEN HandleInputBlur ELSE UNCHANGED vars

NextCanvas ==
  \/ \E i \in (IF data = Null THEN {} ELSE DOMAIN data.nodes) : HandleNodeDoubleClick(i)
  \/ \E text \in EditTexts : SetEditValue(text)
  \/ InputBlur
  \/ \E key \in {"Enter", "a"}, shiftKey \in BOOLEAN : HandleKeyDown(key, shiftKey)

SpecCanvas == InitCanvas /\ [][NextCanvas]_vars

\* ------------------------------------------------------------------------
\* Properties
\* ------------------------------------------------------------------------
\* A computeLayout call has been made on the graph held in data.
Called == data # Null /\ calls # <<>>

Edges(g) == Range(g.edges)

\* The shape of the node of a given id, if there is one.
ShapesOf(nodes, id) == {nodes[i].shape : i \in {j \in DOMAIN nodes : nodes[j].id = id}}

\* C1 (as claimed): for every input graph, an empty node list included,
\* every edge of the returned edge list has its source and its target among
\* the ids of the input's nodes.
NoDanglingEdges ==
  Called =>
    \A e \in Edges(data) :
      e.source \in NodeIdSet(raw.nodes) /\ e.target \in NodeIdSet(raw.nodes)

\* C1 (amended): for every input graph with a non-empty node list, every
\* edge of the returned edge list has its source and its target among the
\* ids of the input's nodes.
NoDanglingEdgesNonEmpty ==
  (Called /\ raw.nodes # <<>>) =>
    \A e \in Edges(data) :
      e.source \in NodeIdSet(raw.nodes) /\ e.target \in NodeIdSet(raw.nodes)

\* A call on a non-empty graph dropped an edge naming "node99" and kept another edge.
DanglingEdgeDropped ==
  /\ Called
  /\ raw.nodes # <<>>
  /\ \E e \in Edges(raw) : e.target = NODE99 /\ e.source \in NodeIdSet(raw.nodes)
  /\ data.edges # <<>>
  /\ \A e \in Edges(data) : NODE99 \notin {e.source, e.target}

\* C2 (as claimed): for every input graph, no edge of the returned edge list
\* has source = target.
NoSelfLoops ==
  Called => \A e \in Edges(data) : e.source # e.target

\* C2 (amended): for every input graph with a non-empty node list, no edge
\* of the returned edge list has source = target.
NoSelfLoopsNonEmpty ==
  (Called /\ raw.nodes # <<>>) => \A e \in Edges(data) : e.source # e.target

\* A call dropped a labelled self-loop on a declared node and kept another edge.
SelfLoopDropped ==
  /\ Called
  /\ \E e \in Edges(raw) :
       e.source = e.target /\ e.source \in NodeIdSet(raw.nodes) /\ "label" \in DOMAIN e
  /\ data.edges # <<>>
  /\ \A e \in Edges(data) : e.source # e.target

\* C3: every edge that survives sanitization and whose source node is a
\* diamond carries a label that is non-empty after trimming white space.
DecisionEdgesLabelled ==
  Called =>
    \A e \in Edges(data) :
      DIAMOND \in ShapesOf(data.nodes, e.source) =>
        /\ "label" \in DOMAIN e
        /\ \E k \in DOMAIN e.label : ~IsWhiteSpace(e.label[k])

\* A call kept a labelled edge of a diamond and dropped a blank-labelled one.
DecisionEdgeKeptAndDropped ==
  /\ Called
  /\ \E e \in Edges(data) :
       DIAMOND \in ShapesOf(data.nodes, e.source) /\ "label" \in DOMAIN e
  /\ \E e \in Edges(raw) :
       /\ DIAMOND \in ShapesOf(raw.nodes, e.source)
       /\ e.target \in NodeIdSet(raw.nodes) \ {e.source}
       /\ "label" \in DOMAIN e
       /\ e.label # <<>>
       /\ e \notin Edges(data)

\* The edge list a call leaves on a graph: the input's at line 13, the
\* sanitized one otherwise.
EdgesAfterCall(g) == IF Len(g.nodes) = 0 THEN g.edges ELSE Sanitize(g.nodes, g.edges)

\* C4: sanitizing an already sanitized graph yields the same edge list,
\* same edges in the same order, as sanitizing the input once.
SanitizeIdempotent ==
  Called =>
    /\ data.edges = EdgesAfterCall(raw)
    /\ EdgesAfterCall(data) = data.edges
    /\ Sanitize(data.nodes, Sanitize(raw.nodes, raw.edges)) = Sanitize(raw.nodes, raw.edges)

\* A call dropped one of two edges leaving a diamond and kept the other.
SanitizedTwoDecisionEdges ==
  /\ Called
  /\ Len(data.edges) < Len(raw.edges)
  /\ \E i, j \in DOMAIN raw.edges :
       /\ i < j
       /\ DIAMOND \in ShapesOf(raw.nodes, raw.edges[i].source)
       /\ raw.edges[j].source = raw.edges[i].source
       /\ raw.edges[i] \in Edges(data)
       /\ raw.edges[j] \notin Edges(data)

\* The nodes of a given id.
NodesOf(nodes, id) == {nodes[i] : i \in {j \in DOMAIN nodes : nodes[j].id = id}}

\* C5: after level assignment on a non-empty graph, the inferred root has
\* level 0.
RootLevelZero ==
  (Called /\ data.nodes # <<>>) =>
    /\ NodesOf(data.nodes, run.start) # {}
    /\ \A n \in NodesOf(data.nodes, run.start) : "level" \in DOMAIN n /\ n.level = 0

\* A call levelled a graph whose root lies on a cycle of surviving edges.
RootOnCycle ==
  /\ Called
  /\ run.discovered # <<>>
  /\ \E e \in Edges(data) : e.target = run.start /\ e.source \in run.visited
  /\ \E i \in DOMAIN data.nodes : data.nodes[i].level > 1

\* C6: for an edge (u, v) through which v was first enqueued, the final
\* levels satisfy level(v) = level(u) + 1.
DiscoveredEdgeLevels ==
  Called =>
    \A k \in DOMAIN run.discovered :
      LET e == run.discovered[k]
      IN  /\ NodesOf(data.nodes, e.source) # {}
          /\ NodesOf(data.nodes, e.target) # {}
          /\ \A u \in NodesOf(data.nodes, e.source), v \in NodesOf(data.nodes, e.target) :
               v.level = u.level + 1

\* A call levelled a graph with a surviving edge that discovered nothing and
\* does not go one level down (a merge or a back edge).
DiscoveredAndOtherEdges ==
  /\ Called
  /\ Len(run.discovered) >= 2
  /\ \E e \in Edges(data) :
       \E u \in NodesOf(data.nodes, e.source), v \in NodesOf(data.nodes, e.target) :
         e.source \in run.visited /\ v.level # u.level + 1

\* The (x, y) of every node, by id.
Coordinates(nodes) == {<<nodes[i].id, nodes[i].x, nodes[i].y>> : i \in DOMAIN nodes}

\* C7: the coordinates computeLayout leaves on a graph object depend only on
\* the graph and the direction, not on the earlier calls made on the object:
\* they are those of a first call on the graph as generated, so two calls
\* with one direction agree and switching direction and back reproduces the
\* coordinates.
LayoutDeterministic ==
  Called =>
    /\ NodeIdSet(data.nodes) = NodeIdSet(raw.nodes)
    /\ Coordinates(data.nodes) = Coordinates(ComputeLayout(raw, calls[Len(calls)]).nodes)

\* The direction of a graph object was switched and switched back.
SwitchedAndBack ==
  /\ Called
  /\ Len(calls) = 3
  /\ calls[1] = calls[3]
  /\ calls[2] # calls[1]
  /\ Len(data.edges) < Len(raw.edges)
  /\ \E i \in DOMAIN data.nodes : data.nodes[i].level > 0

\* Node a comes before node b in the order (level, id).
Before(a, b) ==
  \/ a.level < b.level
  \/ a.level = b.level /\ LocaleCompare(a.id, b.id) < 0

\* The 0-based place of node i in the order (level, id).
Rank(nodes, i) == Cardinality({j \in DOMAIN nodes : Before(nodes[j], nodes[i])})

\* The 0-based place of node i among the nodes of its level.
RankInLevel(nodes, i) ==
  Cardinality({j \in DOMAIN nodes :
                 nodes[j].level = nodes[i].level /\ Before(nodes[j], nodes[i])})

\* C8: in TOP_BOTTOM two nodes consecutive in the sorted order of one level
\* have x centers NODE_WIDTH + X_GAP = 280 apart; in ZIG_ZAG two nodes of one
\* grid row in adjacent columns have x centers 280 apart.
RowSpacing ==
  Called =>
    \A i, j \in DOMAIN data.nodes :
      LET a == data.nodes[i]
          b == data.nodes[j]
      IN  /\ ( /\ calls[Len(calls)] = TOP_BOTTOM
               /\ a.level = b.level
               /\ RankInLevel(data.nodes, j) = RankInLevel(data.nodes, i) + 1 )
               => (b.x - a.x = 280 /\ a.y = b.y)
          /\ ( /\ calls[Len(calls)] = ZIG_ZAG
               /\ Rank(data.nodes, j) = Rank(data.nodes, i) + 1
               /\ Rank(data.nodes, j) \div 4 = Rank(data.nodes, i) \div 4 )
               => ( /\ a.y = b.y
                    /\ b.x - a.x = IF (Rank(data.nodes, i) \div 4) % 2 = 0 THEN 280 ELSE -280 )

\* A TOP_BOTTOM call placed three nodes in one row and a node in another.
ThreeInARow ==
  /\ Called
  /\ calls[Len(calls)] = TOP_BOTTOM
  /\ \E i \in DOMAIN data.nodes : data.nodes[i].level = 1
  /\ \E i, j, k \in DOMAIN data.nodes :
       /\ data.nodes[i].level = data.nodes[j].level
       /\ data.nodes[j].level = data.nodes[k].level
       /\ RankInLevel(data.nodes, i) = 0
       /\ RankInLevel(data.nodes, j) = 1
       /\ RankInLevel(data.nodes, k) = 2

\* The (x, y) of the node of a given id.
XY(nodes, id) == {<<n.x, n.y>> : n \in NodesOf(nodes, id)}

\* C9: in ZIG_ZAG the node of sorted index i is in row i div 4 and in column
\* i mod 4 of an even row, 3 - (i mod 4) of an odd row, at x = col*280 + 160
\* and y = row*240 + 120; in the chain of 9 nodes indices 0-3 run left to
\* right in row 0, index 4 is at column 3 and index 7 at column 0 of row 1,
\* and index 8 at column 0 of row 2.
SnakePlacement ==
  (Called /\ calls[Len(calls)] = ZIG_ZAG) =>
    /\ \A i \in DOMAIN data.nodes :
         LET index == Rank(data.nodes, i)
             row == index \div 4
             col == IF row % 2 = 0 THEN index % 4 ELSE 3 - (index % 4)
         IN  data.nodes[i].x = col * 280 + 160 /\ data.nodes[i].y = row * 240 + 120
    /\ raw = Chain(9) =>
         /\ \A k \in 1..4 : XY(data.nodes, ChainId(k)) = {<<(k - 1) * 280 + 160, 120>>}
         /\ XY(data.nodes, ChainId(5)) = {<<3 * 280 + 160, 360>>}
         /\ XY(data.nodes, ChainId(8)) = {<<160, 360>>}
         /\ XY(data.nodes, ChainId(9)) = {<<160, 600>>}

\* The chain of 9 nodes was laid out in ZIG_ZAG.
SnakeChainOfNine == Called /\ calls[Len(calls)] = ZIG_ZAG /\ raw = Chain(9)

\* The ids reachable from the ids of S along the edges.
RECURSIVE Reachable(_, _)
Reachable(S, edges) ==
  LET more == S \cup {e.target : e \in {d \in Range(edges) : d.source \in S}}
  IN  IF more = S THEN S ELSE Reachable(more, edges)

LevelsById(nodes) == {<<nodes[i].id, nodes[i].level>> : i \in DOMAIN nodes}

\* C10: after leveling, every node not reachable from the inferred root
\* along the surviving edges has level 0; a node whose only incoming edge
\* was an unlabeled edge of a decision node is not leveled through it, as in
\* scenario A: S=0, A=1, B=2, C=3, D=3, E=0.
UnreachableLevelZero ==
  (Called /\ data.nodes # <<>>) =>
    /\ \A i \in DOMAIN data.nodes :
         data.nodes[i].id \notin Reachable({run.start}, data.edges) =>
           data.nodes[i].level = 0
    /\ \A i \in DOMAIN data.nodes :
         ( /\ data.nodes[i].id # run.start
           /\ \A e \in Edges(raw) :
                e.target = data.nodes[i].id =>
                  DIAMOND \in ShapesOf(raw.nodes, e.source) /\ "label" \notin DOMAIN e )
           => data.nodes[i].level = 0
    /\ raw = ScenarioA =>
         LevelsById(data.nodes) =
           {<<<<"S">>, 0>>, <<<<"A">>, 1>>, <<<<"B">>, 2>>, <<<<"C">>, 3>>,
            <<<<"D">>, 3>>, <<<<"E">>, 0>>}

\* Scenario A was levelled.
ScenarioALevelled == Called /\ raw = ScenarioA /\ Len(data.edges) = 4

\* C11: in TOP_BOTTOM two nodes have the same y exactly when they have the
\* same level, a node of a greater level has a strictly greater y, and
\* y = level * (NODE_HEIGHT + Y_GAP) + CANVAS_PADDING + NODE_HEIGHT / 2
\* = level * 240 + 120.
RowsByLevel ==
  (Called /\ calls[Len(calls)] = TOP_BOTTOM) =>
    \A i, j \in DOMAIN data.nodes :
      LET a == data.nodes[i]
          b == data.nodes[j]
      IN  /\ (a.y = b.y) <=> (a.level = b.level)
          /\ a.level > b.level => a.y > b.y
          /\ a.y = a.level * 240 + 120

\* A TOP_BOTTOM call placed nodes of levels 0, 1 and 2, two of them in one
\* row.
ThreeRows ==
  /\ Called
  /\ calls[Len(calls)] = TOP_BOTTOM
  /\ \A l \in 0..2 : \E i \in DOMAIN data.nodes : data.nodes[i].level = l
  /\ \E i, j \in DOMAIN data.nodes : i # j /\ data.nodes[i].level = data.nodes[j].level

\* C12: a computeLayout call, the first on a generated graph or a re-layout
\* on a direction change, leaves the node list with the same members in the
\* same order and every node's id, label and shape as they were; on a node
\* only level, x and y are written.
NodesPreserved ==
  Called =>
    /\ Len(data.nodes) = Len(raw.nodes)
    /\ \A i \in DOMAIN raw.nodes :
         /\ DOMAIN raw.nodes[i] \subseteq DOMAIN data.nodes[i]
         /\ data.nodes[i].id = raw.nodes[i].id
         /\ data.nodes[i].label = raw.nodes[i].label
         /\ data.nodes[i].shape = raw.nodes[i].shape
         /\ DOMAIN data.nodes[i] \subseteq DOMAIN raw.nodes[i] \cup {"level", "x", "y"}
         /\ \A k \in DOMAIN raw.nodes[i] \ {"level", "x", "y"} :
              data.nodes[i][k] = raw.nodes[i][k]

\* A graph whose listing order is not its sorted order was laid out and
\* laid out again in another direction.
RelaidOutOfOrder ==
  /\ Called
  /\ Len(calls) >= 2
  /\ calls[Len(calls)] # calls[1]
  /\ \E i, j \in DOMAIN data.nodes :
       /\ i < j
       /\ Before(data.nodes[j], data.nodes[i])
       /\ data.nodes[i].label # data.nodes[j].label

\* C13: on a graph with an empty node list computeLayout runs nothing past
\* its guard and returns its input as it was: the same (empty) node list and
\* the same edge list, no edge removed and no field written.
EmptyGraphUnchanged ==
  (Called /\ raw.nodes = <<>>) =>
    /\ data = raw
    /\ data.edges = raw.edges
    /\ run = NoRun

\* computeLayout was called on an empty node list with an edge.
EmptyGraphWithEdge ==
  /\ Called
  /\ raw.nodes = <<>>
  /\ raw.edges # <<>>
  /\ data.nodes = <<>>

\* C14: when generateFlowchart rejects, the step that handles the rejection
\* makes no computeLayout call for the request, sets an error message, leaves
\* data null and clears the loading flag; and as long as the message is
\* shown no graph is displayed, no layout of the request has run and the
\* loading flag is clear.
RejectionShown ==
  /\ [][GenerateReject =>
          /\ error' # Null
          /\ error'.message = GENERATE_FAILED
          /\ data' = Null
          /\ calls' = <<>>
          /\ run' = NoRun
          /\ isLoading' = FALSE
          /\ pending' = <<>>]_vars
  /\ [](error # Null => (data = Null /\ calls = <<>> /\ run = NoRun /\ ~isLoading))

\* A request was rejected: its message is shown and nothing is loading.
RejectedRequest ==
  /\ error # Null
  /\ error.message = GENERATE_FAILED
  /\ Trim(prompt) # <<>>
  /\ ~isLoading
  /\ data = Null

\* C15 (as claimed): committing a label edit of node n with text t, by blur
\* or by Enter, overwrites the label of node n with t and nothing else: the
\* other nodes, the levels and positions and the edges stay as they were and
\* no computeLayout call is made.
LabelEditOverwrites ==
  [][(editingNodeId # Null /\ editingNodeId' = Null) =>
       /\ Len(data'.nodes) = Len(data.nodes)
       /\ \A i \in DOMAIN data.nodes :
            data'.nodes[i] = IF data.nodes[i].id = editingNodeId.id
                               THEN [data.nodes[i] EXCEPT !.label = editValue]
                               ELSE data.nodes[i]
       /\ data'.edges = data.edges
       /\ calls' = calls
       /\ run' = run]_vars

\* C16: under every interleaving of generation requests and responses at
\* most one request is awaiting its response, so the response that reaches
\* computeLayout and is displayed is that of the most recently issued
\* request: a request is in flight exactly while the loading flag is set,
\* and whenever a graph is displayed no request is in flight.
LatestRequestOnly ==
  /\ Len(pending) <= 1
  /\ isLoading <=> pending # <<>>
  /\ pending # <<>> => (data = Null /\ calls = <<>>)
  /\ data # Null => (pending = <<>> /\ raw # Null /\ Len(calls) >= 1)

\* A request is awaiting its response after the direction was changed.
RequestInFlight ==
  /\ isLoading
  /\ Len(pending) = 1
  /\ pending[1].direction = ZIG_ZAG
  /\ data = Null

\* C17: for a non-empty node list the sanitized edge list is exactly the
\* subsequence of the input edges that pass all three rules (both endpoints
\* declared, source different from target, and a non-blank label if the
\* source is a decision node), in the input order and with duplicates kept;
\* an edge whose source is not a decision node is kept whatever its label;
\* and the three filters give this list in whichever order they are applied.
SanitizedSubsequence ==
  (Called /\ raw.nodes # <<>>) =>
    LET n == raw.nodes
        ids == {n[i].id : i \in DOMAIN n}
        decisions == {n[i].id : i \in {j \in DOMAIN n : n[j].shape = DIAMOND}}
        NonBlank(e) ==
          /\ "label" \in DOMAIN e
          /\ \E k \in DOMAIN e.label : ~IsWhiteSpace(e.label[k])
        Pass(e) ==
          /\ e.source \in ids
          /\ e.target \in ids
          /\ e.source # e.target
          /\ e.source \in decisions => NonBlank(e)
    IN  /\ data.edges = SelectSeq(raw.edges, Pass)
        /\ \A i \in DOMAIN raw.edges :
             ( /\ raw.edges[i].source \in ids \ decisions
               /\ raw.edges[i].target \in ids
               /\ raw.edges[i].source # raw.edges[i].target )
               => raw.edges[i] \in Edges(data)
        /\ data.edges = RemoveGhostEdges(n, RemoveDangling(n, RemoveSelfLoops(raw.edges)))
        /\ data.edges = RemoveSelfLoops(RemoveGhostEdges(n, RemoveDangling(n, raw.edges)))
        /\ data.edges = RemoveSelfLoops(RemoveDangling(n, RemoveGhostEdges(n, raw.edges)))
        /\ data.edges = RemoveDangling(n, RemoveSelfLoops(RemoveGhostEdges(n, raw.edges)))
        /\ data.edges = RemoveDangling(n, RemoveGhostEdges(n, RemoveSelfLoops(raw.edges)))

\* The input held an edge twice and an edge that breaks a rule: both copies
\* were kept, with an unlabelled edge of a node that is no decision.
DuplicateEdgesKept ==
  /\ Called
  /\ Len(data.edges) < Len(raw.edges)
  /\ \E i, j \in DOMAIN data.edges :
       /\ i < j
       /\ data.edges[i] = data.edges[j]
       /\ "label" \notin DOMAIN data.edges[i]
  /\ \E i, j \in DOMAIN data.edges : i < j /\ data.edges[i] # data.edges[j]

\* C18 (as claimed): the start of the level loop is the first node, in
\* listing order, that is the target of no sanitized edge; if every node is
\* the target of some sanitized edge it is the first node of the list.
RootIsFirstNonTarget ==
  (Called /\ raw.nodes # <<>>) =>
    LET targets == {e.target : e \in Edges(data)}
        free == {i \in DOMAIN raw.nodes : raw.nodes[i].id \notin targets}
    IN  IF free = {}
          THEN run.start = raw.nodes[1].id
          ELSE \E i \in free :
                 /\ \A j \in free : i <= j
                 /\ run.start = raw.nodes[i].id

\* C19: on every graph, cycles included, the level loop ends after at most
\* as many dequeues as there are nodes: every id is enqueued at most once
\* (the start once, every other id through one edge), every enqueued id is
\* dequeued once, and the level of a node is the one it was enqueued with,
\* which a later path to the node does not change.
LevelLoopBounded ==
  (Called /\ raw.nodes # <<>>) =>
    /\ run.dequeues <= Len(raw.nodes)
    /\ run.dequeues = 1 + Len(run.discovered)
    /\ run.dequeues = Cardinality(run.visited)
    /\ run.visited \subseteq NodeIdSet(raw.nodes)
    /\ \A i \in DOMAIN run.discovered :
         /\ run.discovered[i].target # run.start
         /\ \A j \in DOMAIN run.discovered :
              i # j => run.discovered[i].target # run.discovered[j].target
         /\ \A a \in NodesOf(data.nodes, run.discovered[i].source) :
              \A b \in NodesOf(data.nodes, run.discovered[i].target) :
                b.level = a.level + 1

\* The loop ran on a cycle of three nodes or more and met a visited node
\* again on the edge closing the cycle, at another level than the one the
\* node was given.
CycleAndLaterPath ==
  /\ Called
  /\ run.dequeues >= 3
  /\ \E i \in DOMAIN data.edges :
       /\ \A j \in DOMAIN run.discovered : run.discovered[j] # data.edges[i]
       /\ data.edges[i].source \in run.visited
       /\ data.edges[i].target \in run.visited
       /\ data.edges[i].source \in Reachable({data.edges[i].target}, data.edges)
       /\ \E a \in NodesOf(data.nodes, data.edges[i].source) :
            \E b \in NodesOf(data.nodes, data.edges[i].target) :
              b.level # a.level + 1

\* The 0-based place in the sequence that a ZIG_ZAG position stands for.
GridIndex(node) ==
  LET row == (node.y - 120) \div 240
      col == (node.x - 160) \div 280
  IN  row * 4 + (IF row % 2 = 0 THEN col ELSE 3 - col)

\* C20: the nodes are placed in the order of level ascending, then id
\* ascending: in ZIG_ZAG a node with the smaller (level, id) key has the
\* smaller place in the sequence, and in TOP_BOTTOM the nodes of one level
\* stand left to right in ascending id order.
PlacedInSortedOrder ==
  Called =>
    \A i, j \in DOMAIN data.nodes :
      LET a == data.nodes[i]
          b == data.nodes[j]
      IN  /\ (calls[Len(calls)] = ZIG_ZAG /\ a.level < b.level)
               => GridIndex(a) < GridIndex(b)
          /\ (calls[Len(calls)] = ZIG_ZAG /\ a.level = b.level /\ LocaleCompare(a.id, b.id) < 0)
               => GridIndex(a) < GridIndex(b)
          /\ (calls[Len(calls)] = TOP_BOTTOM /\ a.level = b.level /\ LocaleCompare(a.id, b.id) < 0)
               => (a.x < b.x /\ a.y = b.y)

\* A ZIG_ZAG call placed, into a second grid row, nodes of several levels,
\* two of them of one level and listed against the order of their ids.
SortedAgainstListing ==
  /\ Called
  /\ calls[Len(calls)] = ZIG_ZAG
  /\ \E i \in DOMAIN data.nodes : data.nodes[i].y = 360
  /\ \E i, j \in DOMAIN data.nodes :
       /\ i < j
       /\ data.nodes[i].level = data.nodes[j].level
       /\ LocaleCompare(data.nodes[j].id, data.nodes[i].id) < 0

\* The number of nodes of the most populated level.
MaxCount(nodes) ==
  CHOOSE c \in 0..Len(nodes) :
    /\ \A l \in {nodes[i].level : i \in DOMAIN nodes} :
         Cardinality({i \in DOMAIN nodes : nodes[i].level = l}) <= c
    /\ c > 0 => \E l \in {nodes[i].level : i \in DOMAIN nodes} :
                  Cardinality({i \in DOMAIN nodes : nodes[i].level = l}) = c

\* C21: in TOP_BOTTOM every row is centered on one vertical axis: for each
\* level the midpoint of the x centers of its leftmost and rightmost nodes
\* is maxCount * (NODE_WIDTH + X_GAP) / 2 + CANVAS_PADDING = maxCount * 140
\* + 50, maxCount being the node count of the most populated level (twice
\* the midpoint is compared, to stay in the integers).
RowsCentered ==
  (Called /\ calls[Len(calls)] = TOP_BOTTOM) =>
    \A i \in DOMAIN data.nodes :
      LET row == {k \in DOMAIN data.nodes : data.nodes[k].level = data.nodes[i].level}
      IN  \E lo, hi \in row :
            /\ \A k \in row : data.nodes[lo].x <= data.nodes[k].x
            /\ \A k \in row : data.nodes[k].x <= data.nodes[hi].x
            /\ data.nodes[lo].x + data.nodes[hi].x = MaxCount(data.nodes) * 280 + 100

\* A TOP_BOTTOM call placed a row of three nodes or more and a row of one.
RowsOfDifferentWidth ==
  /\ Called
  /\ calls[Len(calls)] = TOP_BOTTOM
  /\ MaxCount(data.nodes) >= 3
  /\ \E i \in DOMAIN data.nodes :
       Cardinality({k \in DOMAIN data.nodes : data.nodes[k].level = data.nodes[i].level}) = 1

\* The grid cell <<row, col>> that a ZIG_ZAG position stands for.
GridCell(node) == <<(node.y - 120) \div 240, (node.x - 160) \div 280>>

\* C22: in ZIG_ZAG two nodes consecutive in the sorted sequence stand in
\* adjacent grid cells: in one row with columns 1 apart, or in one column
\* with rows 1 apart, at a wrap too.
ConsecutiveCellsAdjacent ==
  (Called /\ calls[Len(calls)] = ZIG_ZAG) =>
    \A i, j \in DOMAIN data.nodes :
      Rank(data.nodes, j) = Rank(data.nodes, i) + 1 =>
        LET a == GridCell(data.nodes[i])
            b == GridCell(data.nodes[j])
        IN  /\ data.nodes[i].x = a[2] * 280 + 160
            /\ data.nodes[i].y = a[1] * 240 + 120
            /\ data.nodes[j].x = b[2] * 280 + 160
            /\ data.nodes[j].y = b[1] * 240 + 120
            /\ \/ a[1] = b[1] /\ (a[2] - b[2]) \in {-1, 1}
               \/ a[2] = b[2] /\ (a[1] - b[1]) \in {-1, 1}

\* A ZIG_ZAG call placed a sequence that wraps twice: from the fourth node
\* to the fifth and from the eighth to the ninth.
WrappedTwice ==
  /\ Called
  /\ calls[Len(calls)] = ZIG_ZAG
  /\ \A r \in {3, 4, 7, 8} : \E i \in DOMAIN data.nodes : Rank(data.nodes, i) = r
  /\ \A i, j \in DOMAIN data.nodes : i # j => Rank(data.nodes, i) # Rank(data.nodes, j)

\* The ids at most k edges away from root.
RECURSIVE Within(_, _, _)
Within(root, edges, k) ==
  IF k = 0 THEN {root}
  ELSE LET near == Within(root, edges, k - 1)
       IN  near \cup {e.target : e \in {d \in Range(edges) : d.source \in near}}

\* The number of edges of a shortest path from root to id, for an id that
\* can be reached.
Distance(root, edges, id) ==
  CHOOSE k \in 0..Len(edges) :
    /\ id \in Within(root, edges, k)
    /\ k > 0 => id \notin Within(root, edges, k - 1)

\* The root as it is inferred from the graph: the id of the first node, in
\* listing order, that is the target of no edge, or of the first node if
\* there is none.
InferredRoot(nodes, edges) ==
  LET targets == {e.target : e \in Range(edges)}
      free == {i \in DOMAIN nodes : nodes[i].id \notin targets}
  IN  IF free = {} THEN nodes[1].id
      ELSE nodes[CHOOSE i \in free : \A j \in free : i <= j].id

\* C23 (as claimed): after leveling, the level of every node reachable from
\* the inferred root is the number of edges of a shortest path from the root
\* to the node in the sanitized graph; so for every surviving edge (u, v)
\* with u reachable level(v) <= level(u) + 1, and every level from 0 to the
\* greatest level is the level of some node.
LevelsAreDistances ==
  (Called /\ raw.nodes # <<>>) =>
    LET root == InferredRoot(raw.nodes, data.edges)
        reached == Reachable({root}, data.edges)
        levels == {data.nodes[i].level : i \in DOMAIN data.nodes}
    IN  /\ \A i \in DOMAIN data.nodes :
             data.nodes[i].id \in reached =>
               data.nodes[i].level = Distance(root, data.edges, data.nodes[i].id)
        /\ \A e \in Edges(data) :
             e.source \in reached =>
               \A u \in NodesOf(data.nodes, e.source) :
                 \A v \in NodesOf(data.nodes, e.target) :
                   v.level <= u.level + 1
        /\ \A l \in 0..SetMax(levels) : l \in levels

\* C24 (as claimed): whenever a graph is displayed and no generation is in
\* flight, the coordinates of its nodes are those computeLayout gives the
\* generated graph under the currently selected direction, whatever the
\* interleaving of generate, response and direction-change events, a
\* direction change during a pending request included.
DisplayedInSelectedDirection ==
  (data # Null /\ ~isLoading /\ pending = <<>>) =>
    Coordinates(data.nodes) = Coordinates(ComputeLayout(raw, layoutDirection).nodes)

====
